---- MODULE Spec2Model ----
(***************************************************************************)
(* Model of api/index.py: the fertilizer recommendation endpoint, its      *)
(* reference table, the memoized weather adapter and the message renderer. *)
(*                                                                         *)
(* Python values are modelled as follows.  An optional value is a sequence *)
(* of length 0 (None) or 1 (the value).  Numbers are integers.  A dict is  *)
(* a record.  A location key of get_weather_data is a record that says     *)
(* whether it is a tuple (lat, lon) or a place name.  A rendered message   *)
(* is the sequence of its lines.                                           *)
(***************************************************************************)
EXTENDS Integers, Sequences, FiniteSets

VARIABLES
    API_KEY,       \* the credential read from the environment at import
    cache,         \* lru_cache of get_weather_data, least recently used first
    request,       \* the query parameters of the last GET /api/recommend
    weather,       \* the local `weather` of fertilizer_recommendation
    adapterCalls,  \* the arguments of get_weather_data calls of the last request
    outbound,      \* the locations of requests.get calls of the last request
    result,        \* what fertilizer_recommendation returned
    response       \* the HTTP response of the last request

vars == <<API_KEY, cache, request, weather, adapterCalls, outbound, result, response>>

----------------------------------------------------------------------------
(* Python values *)

None == <<>>

Some(x) == <<x>>

\* bool(x) of an optional number: None and 0 are falsy
TruthyNum(o) == o # None /\ o[1] # 0

\* bool(x) of an optional string: None and "" are falsy
TruthyStr(o) == o # None /\ o[1] # ""

Max(a, b) == IF a >= b THEN a ELSE b

Min(a, b) == IF a <= b THEN a ELSE b

\* the tuple (lat, lon) passed as location
Coord(lat, lon) == [is_tuple |-> TRUE, lat |-> lat, lon |-> lon, q |-> ""]

\* a place name passed as location
Place(q) == [is_tuple |-> FALSE, lat |-> 0, lon |-> 0, q |-> q]

----------------------------------------------------------------------------
(* Reference table *)

SAMPLE_DATA ==
    << [Soil_type |-> "Red",   Crop_type |-> "Rice",      Avail_N |-> 250, Avail_P |-> 8,  Exch_K |-> 100],
       [Soil_type |-> "Black", Crop_type |-> "Cotton",    Avail_N |-> 300, Avail_P |-> 12, Exch_K |-> 120],
       [Soil_type |-> "Sandy", Crop_type |-> "Maize",     Avail_N |-> 200, Avail_P |-> 6,  Exch_K |-> 80],
       [Soil_type |-> "Clay",  Crop_type |-> "Wheat",     Avail_N |-> 220, Avail_P |-> 9,  Exch_K |-> 90],
       [Soil_type |-> "Loamy", Crop_type |-> "Sugarcane", Avail_N |-> 280, Avail_P |-> 11, Exch_K |-> 110] >>

MatchesRow(r, soil_type, crop_type) ==
    r.Soil_type = soil_type /\ r.Crop_type = crop_type

\* SAMPLE_DATA[(Soil_type == soil_type) & (Crop_type == crop_type)]
filtered(soil_type, crop_type) ==
    SelectSeq(SAMPLE_DATA, LAMBDA r : MatchesRow(r, soil_type, crop_type))

----------------------------------------------------------------------------
(* Weather adapter *)

maxsize == 100

\* what the external provider does on one call: requests.get raises, or it
\* answers a JSON document whose "main", "rain" and "wind" members may be absent
Payloads ==
    { [raises |-> None, main |-> Some([temp |-> 25, humidity |-> 60]),
       rain |-> None, wind |-> Some([speed |-> 2])],
      [raises |-> None, main |-> Some([temp |-> 5, humidity |-> 60]),
       rain |-> Some(7), wind |-> Some([speed |-> 6])],
      [raises |-> None, main |-> Some([temp |-> 40, humidity |-> 95]),
       rain |-> Some(12), wind |-> Some([speed |-> 9])],
      [raises |-> None, main |-> Some([temp |-> 25, humidity |-> 20]),
       rain |-> Some(0), wind |-> Some([speed |-> 2])],
      [raises |-> None, main |-> None,
       rain |-> None, wind |-> None],
      [raises |-> Some("Connection refused"), main |-> None,
       rain |-> None, wind |-> None] }

ErrorSnapshot(message) == [status |-> "error", message |-> message]

\* variant: the derived soil fields without their floor and ceiling
fetch_weather_unclamped(payload) ==
    IF payload.raises # None THEN ErrorSnapshot(payload.raises[1])
    ELSE IF payload.main = None THEN ErrorSnapshot("'main'")
    ELSE IF payload.wind = None THEN ErrorSnapshot("'wind'")
    ELSE [status        |-> "ok",
          temperature   |-> payload.main[1].temp,
          rainfall      |-> IF payload.rain = None THEN 0 ELSE payload.rain[1],
          humidity      |-> payload.main[1].humidity,
          wind_speed    |-> payload.wind[1].speed,
          soil_temp     |-> payload.main[1].temp - 2,
          soil_moisture |-> payload.main[1].humidity + 10]

\* the body of get_weather_data, given what the provider does
fetch_weather(payload) ==
    IF payload.raises # None THEN ErrorSnapshot(payload.raises[1])
    ELSE IF payload.main = None THEN ErrorSnapshot("'main'")
    ELSE IF payload.wind = None THEN ErrorSnapshot("'wind'")
    ELSE [status        |-> "ok",
          temperature   |-> payload.main[1].temp,
          rainfall      |-> IF payload.rain = None THEN 0 ELSE payload.rain[1],
          humidity      |-> payload.main[1].humidity,
          wind_speed    |-> payload.wind[1].speed,
          soil_temp     |-> Max(10, payload.main[1].temp - 2),
          soil_moisture |-> Min(100, payload.main[1].humidity + 10)]

CacheKeys(c) == { c[i].key : i \in 1..Len(c) }

CacheIndex(c, key) == CHOOSE i \in 1..Len(c) : c[i].key = key

CacheValue(c, key) == c[CacheIndex(c, key)].value

\* a hit makes the entry the most recently used one
lru_hit(c, key) ==
    LET i == CacheIndex(c, key)
    IN  Append(SubSeq(c, 1, i - 1) \o SubSeq(c, i + 1, Len(c)), c[i])

\* variant: a cache that never evicts
lru_store_unbounded(c, key, value) == Append(c, [key |-> key, value |-> value])

\* a miss stores the result; a full cache drops its least recently used entry
lru_store(c, key, value) ==
    LET e == [key |-> key, value |-> value]
    IN  IF Len(c) >= maxsize THEN Append(Tail(c), e) ELSE Append(c, e)

\* variant: a cached error snapshot is not served, the provider is asked again
get_weather_data_retry_errors(c, location, payload) ==
    IF location \in CacheKeys(c) /\ CacheValue(c, location).status = "ok"
    THEN [value |-> CacheValue(c, location), cache |-> lru_hit(c, location),
          outbound |-> <<>>]
    ELSE [value |-> fetch_weather(payload),
          cache |-> lru_store(SelectSeq(c, LAMBDA e : e.key # location),
                              location, fetch_weather(payload)),
          outbound |-> <<location>>]

\* get_weather_data(location) through lru_cache(maxsize=100)
get_weather_data(c, location, payload) ==
    IF location \in CacheKeys(c)
    THEN [value |-> CacheValue(c, location), cache |-> lru_hit(c, location),
          outbound |-> <<>>]
    ELSE [value |-> fetch_weather(payload),
          cache |-> lru_store(c, location, fetch_weather(payload)),
          outbound |-> <<location>>]

----------------------------------------------------------------------------
(* Recommendation engine *)

DefaultWeather ==
    [status |-> "ok", temperature |-> 25, rainfall |-> 0, humidity |-> 60,
     wind_speed |-> 2, soil_temp |-> 23, soil_moisture |-> 50]

\* variant: the credential is not consulted
calls_adapter_any_key(key, req) ==
    \/ req.use_my_location /\ TruthyNum(req.lat) /\ TruthyNum(req.lon)
    \/ TruthyStr(req.manual_location)

\* (use_my_location and lat and lon and API_KEY) or (manual_location and API_KEY)
calls_adapter(key, req) ==
    \/ req.use_my_location /\ TruthyNum(req.lat) /\ TruthyNum(req.lon) /\ TruthyStr(key)
    \/ TruthyStr(req.manual_location) /\ TruthyStr(key)

\* the argument of get_weather_data
adapter_location(req) ==
    IF req.use_my_location /\ TruthyNum(req.lat) /\ TruthyNum(req.lon)
    THEN Coord(req.lat[1], req.lon[1])
    ELSE Place(req.manual_location[1])

\* variant: inclusive thresholds
select_fertilizers_inclusive(row) ==
    (IF row.Avail_N <= 280 THEN <<"Urea">> ELSE <<>>)
    \o (IF row.Avail_P <= 10 THEN <<"Single Super Phosphate">> ELSE <<>>)
    \o (IF row.Exch_K <= 110 THEN <<"Muriate of Potash">> ELSE <<>>)

\* the three threshold rules, appended in this order
select_fertilizers(row) ==
    (IF row.Avail_N < 280 THEN <<"Urea">> ELSE <<>>)
    \o (IF row.Avail_P < 10 THEN <<"Single Super Phosphate">> ELSE <<>>)
    \o (IF row.Exch_K < 110 THEN <<"Muriate of Potash">> ELSE <<>>)

\* variant: the snapshot's message is looked up under the wrong key, and the
\* fertilizers are already in the dict when the status is checked
assemble_partial(req, row, w) ==
    IF w.status # "ok"
    THEN [error |-> IF "error" \in DOMAIN w THEN w.error
                    ELSE "Weather data unavailable",
          fertilizers |-> select_fertilizers(row)]
    ELSE [fertilizers  |-> select_fertilizers(row),
          land_size_m2 |-> req.land_size,
          fallow_years |-> req.fallow_years,
          weather      |-> w]

\* the check of the resolved snapshot and the assembly of the recommendation
assemble(req, row, w) ==
    IF w.status # "ok"
    THEN [error |-> IF "message" \in DOMAIN w THEN w.message
                    ELSE "Weather data unavailable"]
    ELSE [fertilizers  |-> select_fertilizers(row),
          land_size_m2 |-> req.land_size,
          fallow_years |-> req.fallow_years,
          weather      |-> w]

\* whether this request reaches the weather step
reaches_weather(req) == filtered(req.soil_type, req.crop_type) # <<>>

\* variant: the weather is resolved before the reference table is consulted
fertilizer_recommendation_weather_first(key, c, req, payload) ==
    LET g == IF calls_adapter(key, req)
             THEN get_weather_data(c, adapter_location(req), payload)
             ELSE [value |-> DefaultWeather, cache |-> c, outbound |-> <<>>]
        calls == IF calls_adapter(key, req) THEN <<adapter_location(req)>> ELSE <<>>
    IN  IF ~reaches_weather(req)
        THEN [result |-> [error |-> "No data for this soil-crop combination."],
              weather |-> Some(g.value), adapterCalls |-> calls,
              outbound |-> g.outbound, cache |-> g.cache]
        ELSE [result |-> assemble(req, filtered(req.soil_type, req.crop_type)[1], g.value),
              weather |-> Some(g.value), adapterCalls |-> calls,
              outbound |-> g.outbound, cache |-> g.cache]

\* fertilizer_recommendation: its return value and everything it did
fertilizer_recommendation(key, c, req, payload) ==
    IF ~reaches_weather(req)
    THEN [result |-> [error |-> "No data for this soil-crop combination."],
          weather |-> None, adapterCalls |-> <<>>, outbound |-> <<>>, cache |-> c]
    ELSE LET row == filtered(req.soil_type, req.crop_type)[1]
         IN  IF calls_adapter(key, req)
             THEN LET g == get_weather_data(c, adapter_location(req), payload)
                  IN  [result |-> assemble(req, row, g.value),
                       weather |-> Some(g.value),
                       adapterCalls |-> <<adapter_location(req)>>,
                       outbound |-> g.outbound, cache |-> g.cache]
             ELSE [result |-> assemble(req, row, DefaultWeather),
                   weather |-> Some(DefaultWeather),
                   adapterCalls |-> <<>>, outbound |-> <<>>, cache |-> c]

----------------------------------------------------------------------------
(* Message renderer *)

RainHeavy == "Heavy rain warning! Avoid all field work today."

RainExpected == "Rain expected. Delay fertilizer application."

DryConditions == "Dry conditions. Water crops if needed."

StrongWinds == "Strong winds! No spraying today."

Breezy == "Breezy conditions. Spray carefully."

ColdSoil == "Cold soil. Delay planting warm-season crops."

HotSoil == "Hot soil. Water deeply in early morning."

Waterlogged == "Waterlogged soil. Improve drainage."

DrySoil == "Dry soil. Irrigate soon."

SoilNormal == "Soil conditions normal"

NoFertilizers == "No fertilizers needed now"

LongFallow == "Long fallow period! Plant green manure crops."

NoCritical == "No critical issues detected"

weather_advice(w) ==
    (IF w.rainfall > 10 THEN <<RainHeavy>>
     ELSE IF w.rainfall > 5 THEN <<RainExpected>>
     ELSE <<DryConditions>>)
    \o (IF w.wind_speed > 8 THEN <<StrongWinds>>
        ELSE IF w.wind_speed > 5 THEN <<Breezy>>
        ELSE <<>>)

soil_advice(w) ==
    (IF w.soil_temp < 15 THEN <<ColdSoil>>
     ELSE IF w.soil_temp > 30 THEN <<HotSoil>>
     ELSE <<>>)
    \o (IF w.soil_moisture > 85 THEN <<Waterlogged>>
        ELSE IF w.soil_moisture < 40 THEN <<DrySoil>>
        ELSE <<>>)

Contains(s, x) == \E i \in 1..Len(s) : s[i] = x

fert_advice(fertilizers) ==
    (IF Contains(fertilizers, "Urea")
     THEN <<"Apply Urea (140kg/acre for nitrogen)">> ELSE <<>>)
    \o (IF Contains(fertilizers, "Single Super Phosphate")
        THEN <<"Apply SSP (50kg/acre for phosphorus)">> ELSE <<>>)
    \o (IF Contains(fertilizers, "Muriate of Potash")
        THEN <<"Apply MOP (40kg/acre for potassium)">> ELSE <<>>)

\* variant: the normal line is appended whatever the soil advice
soil_care_always_normal(w) == soil_advice(w) \o <<SoilNormal>>

\* the soil care section of the template
soil_care(w) == IF soil_advice(w) # <<>> THEN soil_advice(w) ELSE <<SoilNormal>>

\* a line of the message: its text and the values formatted into it
Line(text, values) == [text |-> text, values |-> values]

Lines(texts) == [i \in 1..Len(texts) |-> Line(texts[i], <<>>)]

HasLine(message, text) == Contains(message, Line(text, <<>>))

\* the rendered advisory, line by line
generate_farmer_message(recommendation) ==
    LET w == recommendation.weather
    IN  << Line("FARMER ADVISORY", <<>>),
           Line("FIELD CONDITIONS:", <<>>),
           Line("- Land: m2 | Fallow: year(s)",
                <<recommendation.land_size_m2, recommendation.fallow_years>>),
           Line("- Soil Temp: C | Moisture: %", <<w.soil_temp, w.soil_moisture>>),
           Line("WEATHER ALERTS:", <<>>) >>
        \o Lines(weather_advice(w))
        \o <<Line("SOIL CARE:", <<>>)>>
        \o Lines(soil_care(w))
        \o <<Line("FERTILIZER PLAN:", <<>>)>>
        \o Lines(IF fert_advice(recommendation.fertilizers) # <<>>
                 THEN fert_advice(recommendation.fertilizers) ELSE <<NoFertilizers>>)
        \o <<Line("SPECIAL NOTES:", <<>>)>>
        \o Lines(IF recommendation.fallow_years >= 2 THEN <<LongFallow>> ELSE <<NoCritical>>)

----------------------------------------------------------------------------
(* HTTP endpoint *)

\* str(e) of the HTTPException raised inside the try block: the text made of
\* its status code and its detail, not the detail itself
StrOfHTTPException(status_code, detail) ==
    [str_of |-> "HTTPException", status_code |-> status_code, detail |-> detail]

\* the try/except of get_recommendation: the HTTPException(400) raised in the
\* try block is an Exception, so the except clause turns it into a 500
http_response(rec) ==
    IF "error" \in DOMAIN rec
    THEN [status_code |-> 500, detail |-> StrOfHTTPException(400, rec.error)]
    ELSE [status_code |-> 200,
          body |-> [fertilizers    |-> rec.fertilizers,
                    land_size_m2   |-> rec.land_size_m2,
                    fallow_years   |-> rec.fallow_years,
                    weather        |-> rec.weather,
                    farmer_message |-> generate_farmer_message(rec)]]

\* GET /api/recommend, handled to completion (the handler is a coroutine that
\* never awaits, so requests of one process do not interleave)
get_recommendation(req, payload) ==
    LET r == fertilizer_recommendation(API_KEY, cache, req, payload)
    IN  /\ request' = Some(req)
        /\ cache' = r.cache
        /\ weather' = r.weather
        /\ adapterCalls' = r.adapterCalls
        /\ outbound' = r.outbound
        /\ result' = Some(r.result)
        /\ response' = Some(http_response(r.result))
        /\ UNCHANGED API_KEY

\* whether handling req now reaches the external provider
NeedsProvider(req) ==
    /\ reaches_weather(req)
    /\ calls_adapter(API_KEY, req)
    /\ adapter_location(req) \notin CacheKeys(cache)

SilentPayload == CHOOSE p \in Payloads : p.raises = None /\ p.main # None /\ p.rain = None

----------------------------------------------------------------------------
(* Requests *)

SoilCropPairs ==
    { <<"Red", "Rice">>, <<"Loamy", "Sugarcane">>, <<"red", "Rice">>, <<"Red", "Cotton">> }

LandAndFallow == { <<100, 1>>, <<250, 2>> }

\* use_my_location, lat, lon, manual_location
LocationArgs ==
    { <<FALSE, None, None, None>>,
      <<FALSE, None, None, Some("")>>,
      <<FALSE, None, None, Some("Pune")>>,
      <<FALSE, Some(12), Some(77), None>>,
      <<FALSE, Some(12), Some(77), Some("Pune")>>,
      <<TRUE, None, None, None>>,
      <<TRUE, Some(12), None, Some("Pune")>>,
      <<TRUE, Some(12), Some(77), None>>,
      <<TRUE, Some(12), Some(77), Some("Pune")>>,
      <<TRUE, Some(0), Some(77), None>>,
      <<TRUE, Some(0), Some(77), Some("Pune")>>,
      <<TRUE, Some(12), Some(0), None>>,
      <<TRUE, Some(0), Some(0), Some("")>> }

Requests ==
    { [soil_type |-> sc[1], crop_type |-> sc[2],
       land_size |-> lf[1], fallow_years |-> lf[2],
       use_my_location |-> l[1], lat |-> l[2], lon |-> l[3], manual_location |-> l[4]] :
        sc \in SoilCropPairs, lf \in LandAndFallow, l \in LocationArgs }

Init ==
    /\ API_KEY \in { None, Some(""), Some("k") }
    /\ cache = <<>>
    /\ request = None
    /\ weather = None
    /\ adapterCalls = <<>>
    /\ outbound = <<>>
    /\ result = None
    /\ response = None

Recommend ==
    \E req \in Requests :
        \E payload \in (IF NeedsProvider(req) THEN Payloads ELSE {SilentPayload}) :
            get_recommendation(req, payload)

Next == Recommend

Spec == Init /\ [][Next]_vars

----------------------------------------------------------------------------
(* The same endpoint under a workload that fills the cache: a stream of     *)
(* requests for coordinates never asked before, mixed with requests for one *)
(* place name.                                                              *)

MaxKeys == 102

CoordLats(c) == { c[i].key.lat : i \in { j \in 1..Len(c) : c[j].key.is_tuple } }

\* the latitude of the next coordinate pair never asked before
FreshLat ==
    IF CoordLats(cache) = {} THEN 1
    ELSE 1 + CHOOSE m \in CoordLats(cache) : \A x \in CoordLats(cache) : x <= m

BaseRequest ==
    [soil_type |-> "Red", crop_type |-> "Rice", land_size |-> 100, fallow_years |-> 1,
     use_my_location |-> FALSE, lat |-> None, lon |-> None, manual_location |-> None]

FreshRequest ==
    [BaseRequest EXCEPT !.use_my_location = TRUE, !.lat = Some(FreshLat), !.lon = Some(77)]

PlaceRequest == [BaseRequest EXCEPT !.manual_location = Some("Pune")]

AskFresh ==
    /\ FreshLat <= MaxKeys
    /\ get_recommendation(FreshRequest, SilentPayload)

AskPlace ==
    \E payload \in (IF NeedsProvider(PlaceRequest)
                     THEN {SilentPayload} \cup { p \in Payloads : p.main = None }
                     ELSE {SilentPayload}) :
        get_recommendation(PlaceRequest, payload)

InitLRU == Init /\ API_KEY = Some("k")

NextLRU == AskFresh \/ AskPlace

SpecLRU == InitLRU /\ [][NextLRU]_vars

----------------------------------------------------------------------------
(* Properties *)

HasRow(soil_type, crop_type) ==
    \E i \in 1..Len(SAMPLE_DATA) :
        SAMPLE_DATA[i].Soil_type = soil_type /\ SAMPLE_DATA[i].Crop_type = crop_type

RowOf(soil_type, crop_type) ==
    SAMPLE_DATA[CHOOSE i \in 1..Len(SAMPLE_DATA) :
        SAMPLE_DATA[i].Soil_type = soil_type /\ SAMPLE_DATA[i].Crop_type = crop_type]

IsError(r) == "error" \in DOMAIN r

IsRecommendation(r) ==
    DOMAIN r = {"fertilizers", "land_size_m2", "fallow_years", "weather"}

NoCredential == API_KEY = None \/ API_KEY = Some("")

\* C1: a request that ends in a domain error (no reference row, or an
\* error-status snapshot) is answered with status 400 and the domain error
\* message as its detail.
C1_DomainErrorIs400 ==
    (result # None /\ IsError(result[1])) =>
        /\ response[1].status_code = 400
        /\ response[1].detail = result[1].error

\* C2: fertilizer_recommendation returns a Recommendation only when a row
\* matches the soil/crop pair exactly and the resolved snapshot is ok;
\* otherwise it returns an error with no fertilizers and no weather, and the
\* error of an error-status snapshot is that snapshot's message.
C2_AllOrNothing ==
    result # None =>
        LET q == request[1]
            r == result[1]
        IN  IF HasRow(q.soil_type, q.crop_type) /\ weather # None
                 /\ weather[1].status = "ok"
            THEN /\ IsRecommendation(r)
                 /\ r.weather = weather[1]
                 /\ r.land_size_m2 = q.land_size
                 /\ r.fallow_years = q.fallow_years
            ELSE /\ DOMAIN r = {"error"}
                 /\ (weather # None /\ weather[1].status = "error")
                        => r.error = weather[1].message
                 /\ ~HasRow(q.soil_type, q.crop_type)
                        => r.error = "No data for this soil-crop combination."

C2_Witness ==
    /\ result # None
    /\ weather # None
    /\ weather[1].status = "error"
    /\ result[1] = [error |-> "'main'"]

\* C3: without a credential (API_KEY unset or empty) get_weather_data is never
\* called, no outbound call is made, the cache stays as it was (empty), and
\* every Recommendation embeds the fixed default snapshot.
C3_NoCredentialNoCall ==
    NoCredential =>
        /\ adapterCalls = <<>>
        /\ outbound = <<>>
        /\ cache = <<>>
        /\ (result # None /\ ~IsError(result[1])) =>
               result[1].weather =
                   [status |-> "ok", temperature |-> 25, rainfall |-> 0,
                    humidity |-> 60, wind_speed |-> 2, soil_temp |-> 23,
                    soil_moisture |-> 50]

C3_Witness ==
    /\ API_KEY = Some("")
    /\ request # None
    /\ request[1].use_my_location
    /\ request[1].lat = Some(12)
    /\ request[1].lon = Some(77)
    /\ request[1].manual_location = Some("Pune")
    /\ result # None
    /\ IsRecommendation(result[1])

\* C4: with a credential and a matching row, coordinates supplied with
\* use_my_location (any numbers, 0 included) go to the adapter as (lat, lon);
\* otherwise a supplied place name goes to the adapter; otherwise the adapter
\* is not called and the default snapshot is used.
C4_LocationResolution ==
    (request # None /\ TruthyStr(API_KEY)
        /\ HasRow(request[1].soil_type, request[1].crop_type)) =>
        LET q == request[1]
        IN  IF q.use_my_location /\ q.lat # None /\ q.lon # None
            THEN adapterCalls = <<Coord(q.lat[1], q.lon[1])>>
            ELSE IF q.manual_location # None /\ q.manual_location[1] # ""
            THEN adapterCalls = <<Place(q.manual_location[1])>>
            ELSE /\ adapterCalls = <<>>
                 /\ weather = Some(DefaultWeather)

Fertilizers == <<"Urea", "Single Super Phosphate", "Muriate of Potash">>

Needed(row, f) ==
    \/ f = "Urea" /\ row.Avail_N < 280
    \/ f = "Single Super Phosphate" /\ row.Avail_P < 10
    \/ f = "Muriate of Potash" /\ row.Exch_K < 110

ExpectedFertilizers(row) == SelectSeq(Fertilizers, LAMBDA f : Needed(row, f))

ThresholdRows ==
    { [Soil_type |-> "s", Crop_type |-> "c", Avail_N |-> n, Avail_P |-> p, Exch_K |-> k] :
        n \in {279, 280, 281}, p \in {9, 10, 11}, k \in {109, 110, 111} }

\* C5: the fertilizers of every returned Recommendation are the sub-sequence
\* of [Urea, Single Super Phosphate, Muriate of Potash] kept by nitrogen < 280,
\* phosphorus < 10, potassium < 110 (strict) of the matching row, whatever the
\* weather, the land size and the fallow years; the same holds of the rule on
\* every row around the thresholds.
C5_FertilizerList ==
    /\ (result # None /\ ~IsError(result[1])) =>
           result[1].fertilizers =
               ExpectedFertilizers(RowOf(request[1].soil_type, request[1].crop_type))
    /\ \A row \in ThresholdRows : select_fertilizers(row) = ExpectedFertilizers(row)

C5_Witness ==
    /\ result # None
    /\ request[1].soil_type = "Loamy"
    /\ IsRecommendation(result[1])
    /\ result[1].fertilizers = <<>>
    /\ adapterCalls # <<>>

Derived(w) ==
    /\ w.soil_temp = Max(10, w.temperature - 2)
    /\ w.soil_moisture = Min(100, w.humidity + 10)

\* C6 as stated: every ok snapshot embedded in a returned Recommendation, from
\* the adapter or the default one, has soil_temp = max(10, temperature - 2)
\* and soil_moisture = min(100, humidity + 10).
C6_DerivedFieldsEverywhere ==
    (result # None /\ ~IsError(result[1])) => Derived(result[1].weather)

\* C6 as amended: every ok snapshot that came from the adapter has both
\* derived fields; the default snapshot has soil_temp = max(10, temperature - 2)
\* and the fixed soil_moisture 50 for humidity 60.
C6_DerivedFieldsOfAdapter ==
    (result # None /\ ~IsError(result[1])) =>
        LET w == result[1].weather
        IN  IF adapterCalls # <<>>
            THEN Derived(w)
            ELSE /\ w.soil_temp = Max(10, w.temperature - 2)
                 /\ w.humidity = 60
                 /\ w.soil_moisture = 50

C6_Witness ==
    /\ result # None
    /\ IsRecommendation(result[1])
    /\ adapterCalls # <<>>
    /\ result[1].weather.temperature = 5
    /\ result[1].weather.soil_temp = 10

StoredFor(c, key) == { c[i].value : i \in { j \in 1..Len(c) : c[j].key = key } }

\* C7: a fetch for a cached key makes no outbound call and returns the stored
\* snapshot (and becomes the most recently used entry); a fetch for a key not
\* cached makes exactly one outbound call and stores its result; the cache
\* never holds more than 100 keys, and a new key on a full cache evicts the
\* least recently used entry.
C7_Memoization ==
    [][ /\ Len(cache') <= 100
        /\ Cardinality(CacheKeys(cache')) = Len(cache')
        /\ adapterCalls' # <<>> =>
             LET L == adapterCalls'[1]
             IN  IF L \in CacheKeys(cache)
                 THEN /\ outbound' = <<>>
                      /\ StoredFor(cache, L) = {weather'[1]}
                      /\ cache' = Append(SelectSeq(cache, LAMBDA e : e.key # L),
                                         [key |-> L, value |-> weather'[1]])
                 ELSE /\ outbound' = <<L>>
                      /\ cache' = Append(IF Len(cache) = 100 THEN Tail(cache) ELSE cache,
                                         [key |-> L, value |-> weather'[1]])
      ]_vars

C7_Witness ==
    /\ Len(cache) = 100
    /\ outbound # <<>>
    /\ Place("Pune") \in CacheKeys(cache)
    /\ \A i \in 1..Len(cache) : cache[i].key.is_tuple => cache[i].key.lat > 2

\* C8 as stated: with 40 <= soil_moisture <= 85 the message has the "Soil
\* conditions normal" line whatever the soil temperature; with soil_moisture
\* > 85 or < 40 it has the waterlogged / dry-soil line and not the normal line.
C8_NormalLineByMoisture ==
    (response # None /\ response[1].status_code = 200) =>
        LET w == response[1].body.weather
            m == response[1].body.farmer_message
        IN  /\ (w.soil_moisture >= 40 /\ w.soil_moisture <= 85) => HasLine(m, SoilNormal)
            /\ w.soil_moisture > 85 => HasLine(m, Waterlogged) /\ ~HasLine(m, SoilNormal)
            /\ w.soil_moisture < 40 => HasLine(m, DrySoil) /\ ~HasLine(m, SoilNormal)

\* C8 as amended: the message has the "Soil conditions normal" line exactly
\* when neither soil-moisture check and neither soil-temperature check fires
\* (40 <= soil_moisture <= 85 and 15 <= soil_temp <= 30), and then once; with
\* soil_moisture > 85 or < 40 it has the waterlogged / dry-soil line and not
\* the normal line.
C8_NormalLineBySoilSection ==
    (response # None /\ response[1].status_code = 200) =>
        LET w == response[1].body.weather
            m == response[1].body.farmer_message
        IN  /\ HasLine(m, SoilNormal) <=>
                   /\ w.soil_moisture >= 40 /\ w.soil_moisture <= 85
                   /\ w.soil_temp >= 15 /\ w.soil_temp <= 30
            /\ Cardinality({ i \in 1..Len(m) : m[i] = Line(SoilNormal, <<>>) }) <= 1
            /\ w.soil_moisture > 85 => HasLine(m, Waterlogged) /\ ~HasLine(m, SoilNormal)
            /\ w.soil_moisture < 40 => HasLine(m, DrySoil) /\ ~HasLine(m, SoilNormal)

C8_Witness ==
    /\ response # None
    /\ response[1].status_code = 200
    /\ response[1].body.weather.soil_moisture = 70
    /\ response[1].body.weather.soil_temp = 10
    /\ HasLine(response[1].body.farmer_message, ColdSoil)
    /\ ~HasLine(response[1].body.farmer_message, SoilNormal)

\* C9: a request whose soil/crop pair has no exactly matching row fails with
\* 'No data for this soil-crop combination.' without calling get_weather_data:
\* no outbound call, and the cache is left as it was, whatever the credential
\* and the location arguments.
C9_LookupBeforeWeather ==
    [][ ~HasRow(request'[1].soil_type, request'[1].crop_type) =>
            /\ result' = Some([error |-> "No data for this soil-crop combination."])
            /\ adapterCalls' = <<>>
            /\ outbound' = <<>>
            /\ cache' = cache
      ]_vars

C9_Witness ==
    /\ request # None
    /\ request[1].soil_type = "red"
    /\ request[1].manual_location = Some("Pune")
    /\ TruthyStr(API_KEY)
    /\ Place("Pune") \notin CacheKeys(cache)
    /\ result = Some([error |-> "No data for this soil-crop combination."])

\* C10: while an error snapshot for a key is in the cache, every request that
\* resolves to that key fails with that snapshot's message and makes no
\* outbound call, whatever the provider would answer now, and the snapshot
\* stays cached; a cached key leaves the cache only as the least recently used
\* entry of a full cache, when 100 other keys are more recent than it.
C10_ErrorsAreMemoized ==
    [][ /\ \A i \in 1..Len(cache) :
             (cache[i].value.status = "error" /\ adapterCalls' = <<cache[i].key>>) =>
                 /\ result' = Some([error |-> cache[i].value.message])
                 /\ outbound' = <<>>
                 /\ cache[i] \in { cache'[j] : j \in 1..Len(cache') }
        /\ \A i \in 1..Len(cache) :
             cache[i].key \notin CacheKeys(cache') =>
                 /\ i = 1
                 /\ Len(cache) = 100
                 /\ Cardinality(CacheKeys(cache') \ {cache[i].key}) = 100
                 /\ CacheKeys(cache') \ CacheKeys(cache) = {adapterCalls'[1]}
      ]_vars

C10_Witness ==
    /\ adapterCalls = <<Place("Pune")>>
    /\ outbound = <<>>
    /\ result = Some([error |-> "Connection refused"])
    /\ Len(cache) > 1

====
